---- MODULE Spec2Model ----
(***************************************************************************)
(* Authentication / session / reset-token lifecycle of dao-dash.           *)
(*                                                                         *)
(* The repository carries several parallel implementations of the same     *)
(* AuthService.  The variable `variant` fixes which one a behaviour runs:  *)
(*   "mongo"   server/services/authServiceMongo.ts + server/routes/        *)
(*             auth-mongo.ts (JWT, MongoDB documents)                      *)
(*   "backend" backend/src/services/authService.ts + its auth routes       *)
(*             (unnamed/part_005) and backend/src/routes/user.ts           *)
(*   "express" backend-express/services/authService.ts + unnamed/part_009  *)
(*             (in-memory arrays, SessionStore)                            *)
(*   "memory"  unnamed/part_012 + unnamed/part_009 (older in-memory copy)  *)
(*                                                                         *)
(* Time is counted in minutes.  E-mail addresses are sequences of          *)
(* one-character strings so that toLowerCase and the route's regular       *)
(* expression are computed, not assumed.  Fields no property reads (name,  *)
(* lastLogin, createdAt, updatedAt) are left out of the records.           *)
(***************************************************************************)
EXTENDS Integers, Sequences, FiniteSets, TLC

\* ---------------------------------------------------------------- bounds
MaxUsers == 2
MaxTicks == 2
MaxSessions == 2
MaxWrites == 3
StartEpoch == 1000

\* ------------------------------------------------------ program constants
ResetCodeMinutes == 15
TemporaryPasswordHours == 24
JwtExpiresDays == 7
MinutesPerHour == 60

TemporaryWindow == TemporaryPasswordHours * MinutesPerHour
JwtLifetime == JwtExpiresDays * 24 * MinutesPerHour

NoDate == -1
NoCode == "null"
NoPassword == "undefined"

MongoVariants == {"mongo", "backend"}
MemoryVariants == {"express", "memory"}

\* --------------------------------------------------------------- strings
UpperChars == <<"A", "B", "M">>
LowerChars == <<"a", "b", "m">>

ToLowerChar(c) ==
  IF \E i \in 1..Len(UpperChars) : UpperChars[i] = c
  THEN LowerChars[CHOOSE i \in 1..Len(UpperChars) : UpperChars[i] = c]
  ELSE c

\* String.prototype.toLowerCase
ToLowerCase(s) == [i \in 1..Len(s) |-> ToLowerChar(s[i])]

NonSpace(c) == c # " "

\* /\S+@\S+\.\S+/.test(email): some "@" with a non-space before it, then a
\* run of one or more non-space characters, a ".", and a non-space after.
EmailRegexTest(s) ==
  \E i \in 1..Len(s) : \E j \in 1..Len(s) :
    /\ i > 1 /\ j > i + 1 /\ j < Len(s)
    /\ s[i] = "@" /\ s[j] = "."
    /\ NonSpace(s[i - 1]) /\ NonSpace(s[j + 1])
    /\ \A k \in (i + 1)..(j - 1) : NonSpace(s[k])

\* An address is a sequence of pieces: a piece is one character, or a run of
\* lower-case letters and digits (which toLowerCase leaves alone and \S matches).
AdminEmail == <<"admin", "@", "2snd", ".", "fr">>
MarieEmail == <<"m", "arie", ".", "dubois", "@", "2snd", ".", "fr">>
PierreEmail == <<"pierre", ".", "martin", "@", "2snd", ".", "fr">>
SophieEmail == <<"sophie", ".", "laurent", "@", "2snd", ".", "fr">>
MarieEmailUpper == <<"M", "arie", ".", "dubois", "@", "2snd", ".", "fr">>
BobEmail == <<"b", "ob", "@", "x", ".", "com">>
BobEmailUpper == <<"B", "ob", "@", "x", ".", "com">>
MalformedEmail == <<"b", "ob", "x", ".", "com">>

\* inputs offered to the handlers
MongoEmails == {AdminEmail, BobEmailUpper}
MemoryEmails == {MarieEmail, MarieEmailUpper}
RouteEmails == MongoEmails \cup {MalformedEmail}
PasswordInputs == {"admin123", "aB3dE6gH9jK2"}
TemporaryPasswords == {"aB3dE6gH9jK2"}
Codes == {"123456", "654321"}
CreateRoles == {"user"}
TickSteps == {ResetCodeMinutes, TemporaryWindow}

VARIABLES
  variant,      \* which implementation runs
  nodeEnv,      \* process.env.NODE_ENV
  now,          \* Date.now(), minutes since start
  ticks,        \* number of clock advances so far
  writes,       \* number of calls so far that changed something on the server
  docs,         \* the MongoDB User collection; _id is the index
  users,        \* in-memory `users` array
  passwords,    \* in-memory `passwords` record
  resetTokens,  \* in-memory `resetTokens` array
  sessions,     \* SessionStore: set of [token, user]
  nextToken,    \* number of session tokens handed out
  inflight,     \* resetPasswordWithToken requests between findOne and save
  last,         \* the last call that changed something on the server, NoCall once the clock moved
  issued,       \* history: bearer tokens handed out by login
  consumed,     \* history: <<email, code>> pairs a successful reset has used
  tempPassword, \* history: _id -> temporary password createUser returned, until the password is replaced
  tempLogins,   \* history: _id -> number of successful logins with that temporary password
  minted,       \* history: per account, the code generateResetToken last returned and when, until a reset used it
  revoked,      \* history: session tokens logout was called with
  gate,         \* the last request to a protected route: header, requester, response, middleware flags
  client        \* the browser: the AuthProvider's state, the stored session, the location

vars == <<variant, nodeEnv, now, ticks, writes, docs, users, passwords, resetTokens,
          sessions, nextToken, inflight, last, issued, consumed, tempPassword, tempLogins,
          minted, revoked, gate, client>>

config == <<variant, nodeEnv>>
memoryVars == <<users, passwords, resetTokens, sessions, nextToken>>
historyVars == <<issued, consumed, tempPassword, tempLogins, minted, revoked>>
\* everything a service call can touch: all variables but the route record
served == <<variant, nodeEnv, now, ticks, writes, docs, users, passwords, resetTokens,
            sessions, nextToken, inflight, last, issued, consumed, tempPassword, tempLogins,
            minted, revoked>>

Procs == {1, 2}
\* a request slot: `raced` says another request consumed the same code for
\* the same email after this one's findOne and before its save
Idle == [pc |-> "idle", email |-> <<>>, code |-> NoCode, pw |-> NoPassword,
         id |-> 0, res |-> "none", raced |-> FALSE]

NoCall == [op |-> "none", email |-> <<>>, code |-> NoCode, pw |-> NoPassword,
           id |-> 0, res |-> "none", rpc |-> FALSE, status |-> 0,
           body |-> "none", prev |-> NoCode, old |-> NoPassword]

\* what the services never touch: the route record and the browser
front == <<gate, client>>

\* the page has not been loaded
NoClient == [app |-> 0, pc |-> "unmounted", user |-> "null", isLoading |-> TRUE,
             stored |-> FALSE, path |-> "/"]

\* no request has reached a protected route yet
NoRequest == [route |-> "none", header |-> <<>>, target |-> 0, arg |-> "none", by |-> 0,
              status |-> 0, body |-> "none", called |-> FALSE, ran |-> FALSE]

\* bookkeeping of `minted`: the account (the _id in MongoDB, the address in
\* the in-memory service) got a new code now / its code was used
Mint(m, key, code, owner) ==
  {g \in m : g.key # key} \cup {[key |-> key, code |-> code, at |-> now, owner |-> owner]}
Burn(m, key) == {g \in m : g.key # key}

\* ------------------------------------------------------- password hasher
\* userSchema.pre("save"): bcrypt.hash of the plaintext
Hash(p) == [bcrypt |-> p]

\* a comparison that accepts any candidate
AlwaysMatches(candidate, stored) == TRUE

\* userSchema.methods.comparePassword
ComparePassword(candidate, stored) == stored = Hash(candidate)

\* ============================================================ MongoDB
\* UserModel.findOne(filter): the first document the filter matches, 0 if none
FindOne(matching) ==
  IF matching # {}
  THEN CHOOSE i \in matching : \A j \in matching : i <= j
  ELSE 0

\* UserModel.findById
FindById(id) == IF id \in DOMAIN docs THEN id ELSE 0

\* an expiry check that never fires
NeverExpired(doc) == FALSE

\* userSchema.methods.isTemporaryPasswordExpired
IsTemporaryPasswordExpired(doc) ==
  IF ~doc.isTemporaryPassword \/ doc.temporaryPasswordExpires = NoDate
  THEN FALSE
  ELSE now > doc.temporaryPasswordExpires

\* a createUser that stores the generated password as a permanent one
MarkNothing(doc) == doc

\* userSchema.methods.markPasswordAsTemporary(24)
MarkPasswordAsTemporary(doc) ==
  [doc EXCEPT !.isTemporaryPassword = TRUE,
              !.temporaryPasswordExpires = now + TemporaryWindow]

\* jwt.sign({ userId }, secret, { expiresIn }): the token is determined by
\* the user and the issue time
GenerateToken(id) == [userId |-> id, iat |-> now, nonce |-> 0]

\* the token is a JWT (a session token of the in-memory service is
\* "token_<time>_<random>", which jwt.verify rejects)
IsJwt(t) == t.nonce = 0

\* jwt.verify: a token the server signed, not yet expired
VerifyToken(t) == t \in issued /\ IsJwt(t) /\ now < t.iat + JwtLifetime

InvalidCredentials == "Invalid credentials"
TemporaryExpired == "Temporary password has expired. Please request a password reset."

\* AuthServiceMongo.login / backend AuthService.login, up to the password check
LoginResult(email, password) ==
  LET lower == ToLowerCase(email)
      id == FindOne({d \in DOMAIN docs : docs[d].email = lower /\ docs[d].isActive})
  IN IF id = 0
     THEN [ok |-> FALSE, id |-> 0, error |-> InvalidCredentials, rpc |-> FALSE]
     ELSE IF IsTemporaryPasswordExpired(docs[id])
     THEN [ok |-> FALSE, id |-> id, error |-> TemporaryExpired, rpc |-> FALSE]
     ELSE IF ~ComparePassword(password, docs[id].password)
     THEN [ok |-> FALSE, id |-> id, error |-> InvalidCredentials, rpc |-> FALSE]
     ELSE [ok |-> TRUE, id |-> id, error |-> "", rpc |-> docs[id].isTemporaryPassword]

\* POST /login: what the route answers for the service's outcome.  The route
\* of server/routes/auth-mongo.ts sends error.message; the backend route
\* (unnamed/part_005) sends a fixed text.
LoginResponse(password, r) ==
  IF password = ""
  THEN [status |-> 400, body |-> IF variant = "backend" THEN "Invalid input"
                                 ELSE "Email and password are required"]
  ELSE IF r.ok THEN [status |-> 200, body |-> "AuthResponse"]
  ELSE [status |-> 401, body |-> IF variant = "backend" THEN "Login failed" ELSE r.error]

Login(email, password) ==
  /\ variant \in MongoVariants
  /\ LET r == LoginResult(email, password)
         http == LoginResponse(password, r)
         t == GenerateToken(r.id)
     IN IF password # "" /\ r.ok
        THEN /\ t \notin issued => Cardinality(issued) < MaxSessions
             /\ writes < MaxWrites
             /\ writes' = writes + 1
             /\ issued' = issued \cup {t}
             /\ tempLogins' = IF tempPassword[r.id] = password
                              THEN [tempLogins EXCEPT ![r.id] = @ + 1] ELSE tempLogins
             /\ last' = [NoCall EXCEPT !.op = "login", !.id = r.id, !.pw = password,
                           !.res = "ok", !.rpc = r.rpc,
                           !.status = http.status, !.body = http.body]
        ELSE UNCHANGED <<writes, issued, tempLogins, last>>
  /\ UNCHANGED <<config, now, ticks, docs, memoryVars, inflight,
                 consumed, tempPassword, minted, revoked>>

\* AuthServiceMongo.getUserByToken
GetUserByToken(t) ==
  IF ~VerifyToken(t) THEN 0
  ELSE IF FindById(t.userId) = 0 \/ ~docs[t.userId].isActive THEN 0
  ELSE t.userId

\* AuthServiceMongo.createUser / backend AuthService.createUser
CreateUser(email, role) ==
  /\ variant \in MongoVariants
  /\ LET lower == ToLowerCase(email)
         existing == FindOne({d \in DOMAIN docs : docs[d].email = lower})
     IN IF existing # 0
        THEN UNCHANGED <<writes, docs, tempPassword, tempLogins, last>>
        ELSE \E temporaryPassword \in TemporaryPasswords :
             /\ Len(docs) < MaxUsers /\ writes < MaxWrites
             /\ writes' = writes + 1
             /\ docs' = Append(docs, MarkPasswordAsTemporary(
                   [email |-> lower, password |-> Hash(temporaryPassword),
                    role |-> role, isActive |-> TRUE,
                    isTemporaryPassword |-> FALSE, temporaryPasswordExpires |-> NoDate,
                    resetPasswordToken |-> NoCode, resetPasswordExpires |-> NoDate]))
             /\ tempPassword' = Append(tempPassword, temporaryPassword)
             /\ tempLogins' = Append(tempLogins, 0)
             /\ last' = [NoCall EXCEPT !.op = "createUser", !.pw = temporaryPassword,
                           !.id = Len(docs) + 1, !.res = "ok", !.status = 201]
  /\ UNCHANGED <<config, now, ticks, memoryVars, inflight, issued, consumed, minted, revoked>>

\* AuthServiceMongo.deactivateUser: findByIdAndUpdate(isActive: false)
DeactivateUser(id) ==
  /\ variant \in MongoVariants
  /\ IF FindById(id) = 0
     THEN UNCHANGED <<writes, docs, last>>
     ELSE /\ writes < MaxWrites
          /\ writes' = writes + 1
          /\ docs' = [docs EXCEPT ![id].isActive = FALSE]
          /\ last' = [NoCall EXCEPT !.op = "deactivateUser", !.id = id, !.res = "true"]
  /\ UNCHANGED <<config, now, ticks, memoryVars, inflight, historyVars>>

\* POST /api/users/:id/activate (backend/src/routes/user.ts, backend variant only)
ActivateUser(id) ==
  /\ variant = "backend"
  /\ IF FindById(id) = 0
     THEN UNCHANGED <<writes, docs, last>>
     ELSE /\ writes < MaxWrites
          /\ writes' = writes + 1
          /\ docs' = [docs EXCEPT ![id].isActive = TRUE]
          /\ last' = [NoCall EXCEPT !.op = "activateUser", !.id = id, !.res = "true",
                        !.status = 200]
  /\ UNCHANGED <<config, now, ticks, memoryVars, inflight, historyVars>>

\* AuthServiceMongo.changePassword
ChangePassword(id, newPassword) ==
  /\ variant \in MongoVariants
  /\ IF FindById(id) = 0
     THEN UNCHANGED <<writes, docs, tempPassword, last>>
     ELSE /\ writes < MaxWrites
          /\ writes' = writes + 1
          /\ docs' = [docs EXCEPT ![id].password = Hash(newPassword),
                                  ![id].isTemporaryPassword = FALSE,
                                  ![id].temporaryPasswordExpires = NoDate]
          /\ tempPassword' = [tempPassword EXCEPT ![id] = NoPassword]
          /\ last' = [NoCall EXCEPT !.op = "changePassword", !.id = id,
                        !.email = docs[id].email, !.pw = newPassword,
                        !.old = docs[id].password.bcrypt, !.res = "true"]
  /\ UNCHANGED <<config, now, ticks, memoryVars, inflight, issued, consumed, tempLogins,
                 minted, revoked>>

\* AuthServiceMongo.updateProfile
UpdateProfile(id, email) ==
  /\ variant \in MongoVariants
  /\ IF FindById(id) = 0
     THEN UNCHANGED <<writes, docs, last>>
     ELSE IF /\ email # docs[id].email
             /\ \E j \in DOMAIN docs : j # id /\ docs[j].email = ToLowerCase(email)
     THEN UNCHANGED <<writes, docs, last>>
     ELSE /\ writes < MaxWrites
          /\ writes' = writes + 1
          /\ docs' = [docs EXCEPT ![id].email = ToLowerCase(email)]
          /\ last' = [NoCall EXCEPT !.op = "updateProfile", !.id = id,
                        !.email = ToLowerCase(email), !.res = "ok"]
  /\ UNCHANGED <<config, now, ticks, memoryVars, inflight, historyVars>>

\* ------------------------------------------------------ reset-code manager
\* a route that spreads the code into the body whatever NODE_ENV is
LeakyResponse(token) ==
  [status |-> 200,
   body |-> IF token # NoCode
            THEN <<"Si cet email existe, un code de reinitialisation a ete envoye.",
                   "developmentToken", token>>
            ELSE <<"Si cet email existe, un code de reinitialisation a ete envoye.">>]

\* POST /forgot-password: the body the route sends once the service returned
ForgotPasswordResponse(token) ==
  [status |-> 200,
   body |-> IF nodeEnv = "development" /\ token # NoCode
            THEN <<"Si cet email existe, un code de reinitialisation a ete envoye.",
                   "developmentToken", token>>
            ELSE <<"Si cet email existe, un code de reinitialisation a ete envoye.">>]

\* the route's guard: !email || !/\S+@\S+\.\S+/.test(email)
ForgotPasswordRejects(email) == email = <<>> \/ ~EmailRegexTest(email)

BadEmailResponse ==
  [status |-> 400, body |-> IF variant = "backend" THEN <<"Invalid input">>
                            ELSE <<"Valid email is required">>]

\* POST /forgot-password with AuthServiceMongo.generateResetToken
GenerateResetToken(email) ==
  /\ variant \in MongoVariants
  /\ IF ForgotPasswordRejects(email)
     THEN UNCHANGED <<writes, docs, minted, last>>
     ELSE LET lower == ToLowerCase(email)
              id == FindOne({d \in DOMAIN docs : docs[d].email = lower /\ docs[d].isActive})
          IN IF id = 0
             THEN UNCHANGED <<writes, docs, minted, last>>
             ELSE \E token \in Codes :
                  /\ writes < MaxWrites
                  /\ writes' = writes + 1
                  /\ minted' = Mint(minted, id, token, id)
                  /\ docs' = [docs EXCEPT ![id].resetPasswordToken = token,
                                          ![id].resetPasswordExpires = now + ResetCodeMinutes]
                  /\ last' = [NoCall EXCEPT !.op = "forgotPassword", !.id = id,
                                !.email = docs[id].email, !.res = token,
                                !.prev = docs[id].resetPasswordToken,
                                !.status = ForgotPasswordResponse(token).status,
                                !.body = ForgotPasswordResponse(token).body]
  /\ UNCHANGED <<config, now, ticks, memoryVars, inflight, issued, consumed,
                 tempPassword, tempLogins, revoked>>

\* a lookup that leaves resetPasswordExpires out of the filter
ResetLookupIgnoresExpiry(token, email) ==
  FindOne({d \in DOMAIN docs : /\ docs[d].email = ToLowerCase(email)
                                /\ docs[d].resetPasswordToken = token
                                /\ docs[d].isActive})

\* the findOne of verifyResetToken and resetPasswordWithToken: the _id of
\* the document found, 0 if none
ResetLookup(token, email) ==
  LET lower == ToLowerCase(email)
  IN FindOne({d \in DOMAIN docs : /\ docs[d].email = lower
                                   /\ docs[d].resetPasswordToken = token
                                   /\ docs[d].resetPasswordExpires # NoDate
                                   /\ docs[d].resetPasswordExpires > now
                                   /\ docs[d].isActive})

\* AuthServiceMongo.verifyResetToken
VerifyResetToken(token, email) ==
  /\ variant \in MongoVariants
  /\ (ResetLookup(token, email) # 0) \in BOOLEAN
  /\ UNCHANGED vars

\* a reset that replaces the password and leaves the code in place
ResetAssignKeepsCode(doc, newPassword) == [doc EXCEPT !.password = Hash(newPassword)]

\* the assignments resetPasswordWithToken makes before user.save(); the
\* backend service leaves the temporary-password fields alone
ResetAssign(doc, newPassword) ==
  IF variant = "backend"
  THEN [doc EXCEPT !.password = Hash(newPassword),
                   !.resetPasswordToken = NoCode,
                   !.resetPasswordExpires = NoDate]
  ELSE [doc EXCEPT !.password = Hash(newPassword),
                   !.resetPasswordToken = NoCode,
                   !.resetPasswordExpires = NoDate,
                   !.isTemporaryPassword = FALSE,
                   !.temporaryPasswordExpires = NoDate]

\* AuthServiceMongo.resetPasswordWithToken, run without interleaving
ResetPasswordWithToken(token, email, newPassword) ==
  /\ variant \in MongoVariants
  /\ LET id == ResetLookup(token, email)
     IN IF id = 0
        THEN UNCHANGED <<writes, docs, consumed, tempPassword, minted, last>>
        ELSE /\ writes < MaxWrites
             /\ writes' = writes + 1
             /\ docs' = [docs EXCEPT ![id] = ResetAssign(docs[id], newPassword)]
             /\ consumed' = consumed \cup {<<docs[id].email, token>>}
             /\ minted' = Burn(minted, id)
             /\ tempPassword' = [tempPassword EXCEPT ![id] = NoPassword]
             /\ last' = [NoCall EXCEPT !.op = "resetPassword", !.id = id,
                           !.email = docs[id].email, !.code = token,
                           !.pw = newPassword, !.old = docs[id].password.bcrypt,
                           !.res = "true", !.status = 200]
  /\ UNCHANGED <<config, now, ticks, memoryVars, inflight, issued, tempLogins, revoked>>

\* resetPasswordWithToken up to `await UserModel.findOne(...)`: request p
\* holds the document it loaded
ResetFind(p, token, email, newPassword) ==
  /\ variant \in MongoVariants
  /\ inflight[p].pc = "idle"
  /\ LET id == ResetLookup(token, email)
     IN inflight' = [inflight EXCEPT ![p] =
          [pc |-> IF id = 0 THEN "done" ELSE "found",
           email |-> ToLowerCase(email), code |-> token, pw |-> newPassword, id |-> id,
           res |-> IF id = 0 THEN "false" ELSE "none", raced |-> FALSE]]
  /\ last' = NoCall
  /\ UNCHANGED <<config, now, ticks, writes, docs, memoryVars, historyVars>>

\* resetPasswordWithToken from the assignments to `await user.save()`:
\* save() writes the paths the request modified and the request returns true
ResetSave(p) ==
  /\ variant \in MongoVariants
  /\ inflight[p].pc = "found"
  /\ LET r == inflight[p]
     IN /\ docs' = [docs EXCEPT ![r.id] = ResetAssign(docs[r.id], r.pw)]
        /\ consumed' = consumed \cup {<<r.email, r.code>>}
        /\ minted' = Burn(minted, r.id)
        /\ tempPassword' = [tempPassword EXCEPT ![r.id] = NoPassword]
        /\ inflight' = [q \in Procs |->
             IF q = p THEN [r EXCEPT !.pc = "done", !.res = "true"]
             ELSE IF /\ inflight[q].pc = "found" /\ inflight[q].id = r.id
                     /\ inflight[q].code = r.code /\ inflight[q].email = r.email
             THEN [inflight[q] EXCEPT !.raced = TRUE]
             ELSE inflight[q]]
        /\ last' = [NoCall EXCEPT !.op = "resetPassword", !.id = r.id,
                      !.email = r.email, !.code = r.code, !.pw = r.pw,
                      !.old = docs[r.id].password.bcrypt, !.res = "true", !.status = 200]
  /\ UNCHANGED <<config, now, ticks, writes, memoryVars, issued, tempLogins, revoked>>

\* the response has been sent; the request slot is free again
ResetReturn(p) ==
  /\ inflight[p].pc = "done"
  /\ \A q \in Procs : inflight[q].pc # "found"
  /\ inflight' = [inflight EXCEPT ![p] = Idle]
  /\ last' = NoCall
  /\ UNCHANGED <<config, now, ticks, writes, docs, memoryVars, historyVars>>

\* the wall clock advances by d minutes
Tick(d) ==
  /\ ticks < MaxTicks
  /\ ticks' = ticks + 1
  /\ now' = now + d
  /\ last' = NoCall
  /\ UNCHANGED <<config, writes, docs, memoryVars, inflight, historyVars>>

\* ====================================================== in-memory service
\* the `users` array of backend-express/services/authService.ts (three
\* accounts) and of its older copy unnamed/part_012 (four accounts)
InitialUsers ==
  LET three == << [id |-> 1, email |-> AdminEmail, role |-> "admin", isActive |-> TRUE],
                  [id |-> 2, email |-> MarieEmail, role |-> "user", isActive |-> TRUE],
                  [id |-> 3, email |-> PierreEmail, role |-> "user", isActive |-> TRUE] >>
  IN IF variant = "memory"
     THEN Append(three, [id |-> 4, email |-> SophieEmail, role |-> "viewer", isActive |-> TRUE])
     ELSE three

\* the `passwords` record: a set of <<email, password>> with one entry per key
InitialPasswords ==
  {<<AdminEmail, "admin123">>, <<MarieEmail, "marie123">>, <<PierreEmail, "pierre123">>}
    \cup (IF variant = "memory" THEN {<<SophieEmail, "sophie123">>} ELSE {})

DefaultPassword == "changeme123"

\* passwords[email]
PasswordOf(pws, email) ==
  IF \E e \in pws : e[1] = email
  THEN (CHOOSE e \in pws : e[1] = email)[2]
  ELSE NoPassword

\* delete passwords[email]
DeletePassword(pws, email) == {e \in pws : e[1] # email}

\* passwords[email] = password
PutPassword(pws, email, password) == DeletePassword(pws, email) \cup {<<email, password>>}

\* Array.prototype.findIndex, 0 for -1
FirstIndex(matching) ==
  IF matching # {}
  THEN CHOOSE i \in matching : \A j \in matching : i <= j
  ELSE 0

\* a splice that removes nothing
SpliceNothing(seq, index) == seq

\* Array.prototype.splice(index, 1)
Splice(seq, index) == SubSeq(seq, 1, index - 1) \o SubSeq(seq, index + 1, Len(seq))

\* SessionStore.getSession: the identity stored under the token, 0 if none
GetSession(t) ==
  IF \E e \in sessions : e.token = t THEN (CHOOSE e \in sessions : e.token = t).user.id ELSE 0

\* SessionStore.setSession
SetSession(store, t, authUser) ==
  {e \in store : e.token # t} \cup {[token |-> t, user |-> authUser]}

\* SessionStore.deleteSession
DeleteSession(store, t) == {e \in store : e.token # t}

\* SessionStore.deleteUserSessions
DeleteUserSessions(store, userId) == {e \in store : e.user.id # userId}

\* AuthService.login (in-memory)
MemLoginResult(email, password) ==
  LET i == FirstIndex({u \in DOMAIN users : users[u].email = email /\ users[u].isActive})
  IN IF i = 0 THEN [ok |-> FALSE, index |-> 0, error |-> InvalidCredentials]
     ELSE IF PasswordOf(passwords, email) # password
     THEN [ok |-> FALSE, index |-> i, error |-> InvalidCredentials]
     ELSE [ok |-> TRUE, index |-> i, error |-> ""]

MemLogin(email, password) ==
  /\ variant \in MemoryVariants
  /\ LET r == MemLoginResult(email, password)
     IN IF password # "" /\ r.ok
        THEN LET user == users[r.index]
                 t == [userId |-> user.id, iat |-> now, nonce |-> nextToken + 1]
             IN /\ nextToken < MaxSessions
                /\ writes < MaxWrites
                /\ writes' = writes + 1
                /\ nextToken' = nextToken + 1
                /\ sessions' = SetSession(sessions, t,
                                 [id |-> user.id, email |-> user.email, role |-> user.role])
                /\ issued' = issued \cup {t}
                /\ last' = [NoCall EXCEPT !.op = "login", !.id = user.id, !.pw = password,
                              !.res = "ok", !.status = 200, !.body = "AuthResponse"]
        ELSE UNCHANGED <<writes, nextToken, sessions, issued, last>>
  /\ UNCHANGED <<config, now, ticks, docs, users, passwords, resetTokens,
                 inflight, consumed, tempPassword, tempLogins, minted, revoked>>

\* a logout that leaves the session in the store
LogoutKeepsSession(t) ==
  /\ variant \in MemoryVariants
  /\ GetSession(t) # 0
  /\ revoked' = revoked \cup {t}
  /\ last' = [NoCall EXCEPT !.op = "logout", !.id = t.userId, !.res = "true", !.status = 200]
  /\ UNCHANGED <<config, now, ticks, writes, docs, memoryVars, inflight,
                 issued, consumed, tempPassword, tempLogins, minted>>

\* POST /logout behind `authenticate`, AuthService.logout
Logout(t) ==
  /\ variant \in MemoryVariants
  /\ GetSession(t) # 0
  /\ sessions' = DeleteSession(sessions, t)
  /\ revoked' = revoked \cup {t}
  /\ last' = [NoCall EXCEPT !.op = "logout", !.id = t.userId, !.res = "true", !.status = 200]
  /\ UNCHANGED <<config, now, ticks, writes, docs, users, passwords, resetTokens,
                 nextToken, inflight, issued, consumed, tempPassword, tempLogins, minted>>

\* AuthService.createUser (in-memory): no duplicate check, id from the clock
MemCreateUser(email, role) ==
  /\ variant \in MemoryVariants
  /\ Len(users) < Len(InitialUsers) + MaxUsers
  /\ writes < MaxWrites
  /\ writes' = writes + 1
  /\ users' = Append(users, [id |-> StartEpoch + now, email |-> email, role |-> role,
                             isActive |-> TRUE])
  /\ passwords' = PutPassword(passwords, email, DefaultPassword)
  /\ last' = [NoCall EXCEPT !.op = "createUser", !.id = StartEpoch + now, !.email = email,
                !.pw = DefaultPassword, !.res = "ok", !.status = 201]
  /\ UNCHANGED <<config, now, ticks, docs, resetTokens, sessions, nextToken,
                 inflight, historyVars>>

\* AuthService.deactivateUser (in-memory).  backend-express calls
\* SessionStore.deleteUserSessions; unnamed/part_012 iterates an undeclared
\* `sessions` after clearing isActive, which throws a ReferenceError.
MemDeactivateUser(id) ==
  /\ variant \in MemoryVariants
  /\ LET i == FirstIndex({u \in DOMAIN users : users[u].id = id})
     IN IF i = 0
        THEN UNCHANGED <<writes, users, sessions, last>>
        ELSE /\ writes < MaxWrites
             /\ writes' = writes + 1
             /\ users' = [users EXCEPT ![i].isActive = FALSE]
             /\ IF variant = "express"
                THEN /\ sessions' = DeleteUserSessions(sessions, id)
                     /\ last' = [NoCall EXCEPT !.op = "deactivateUser", !.id = id,
                                   !.res = "true", !.status = 200]
                ELSE /\ sessions' = sessions
                     /\ last' = [NoCall EXCEPT !.op = "deactivateUser", !.id = id,
                                   !.res = "ReferenceError", !.status = 500]
  /\ UNCHANGED <<config, now, ticks, docs, passwords, resetTokens, nextToken,
                 inflight, historyVars>>

\* AuthService.changePassword (in-memory)
MemChangePassword(id, newPassword) ==
  /\ variant \in MemoryVariants
  /\ LET i == FirstIndex({u \in DOMAIN users : users[u].id = id})
     IN IF i = 0
        THEN UNCHANGED <<writes, passwords, last>>
        ELSE /\ writes < MaxWrites
             /\ writes' = writes + 1
             /\ passwords' = PutPassword(passwords, users[i].email, newPassword)
             /\ last' = [NoCall EXCEPT !.op = "changePassword", !.id = id,
                           !.email = users[i].email, !.pw = newPassword,
                           !.old = PasswordOf(passwords, users[i].email), !.res = "true"]
  /\ UNCHANGED <<config, now, ticks, docs, users, resetTokens, sessions, nextToken,
                 inflight, historyVars>>

\* AuthService.updateProfile (backend-express only)
MemUpdateProfile(id, email) ==
  /\ variant = "express"
  /\ LET i == FirstIndex({u \in DOMAIN users : users[u].id = id})
     IN IF i = 0
        THEN UNCHANGED <<writes, users, passwords, last>>
        ELSE IF email # users[i].email /\ \E u \in {users[j] : j \in DOMAIN users} :
                                            u.email = email /\ u.id # id
        THEN UNCHANGED <<writes, users, passwords, last>>
        ELSE /\ writes < MaxWrites
             /\ writes' = writes + 1
             /\ passwords' = IF email # users[i].email
                             THEN PutPassword(DeletePassword(passwords, users[i].email), email,
                                              PasswordOf(passwords, users[i].email))
                             ELSE passwords
             /\ users' = [users EXCEPT ![i].email = email]
             /\ last' = [NoCall EXCEPT !.op = "updateProfile", !.id = id, !.email = email,
                           !.res = "ok"]
  /\ UNCHANGED <<config, now, ticks, docs, resetTokens, sessions, nextToken,
                 inflight, historyVars>>

\* AuthService.generateResetToken (backend-express)
MemGenerateResetToken(email) ==
  /\ variant = "express"
  /\ LET i == FirstIndex({u \in DOMAIN users : users[u].email = email /\ users[u].isActive})
         existingIndex == FirstIndex({t \in DOMAIN resetTokens : resetTokens[t].email = email})
         kept == IF existingIndex # 0 THEN Splice(resetTokens, existingIndex) ELSE resetTokens
     IN IF i = 0
        THEN UNCHANGED <<writes, resetTokens, minted, last>>
        ELSE \E token \in Codes :
             /\ writes < MaxWrites
             /\ writes' = writes + 1
             /\ minted' = Mint(minted, email, token, users[i].id)
             /\ resetTokens' = Append(kept, [token |-> token, email |-> email,
                                             expiresAt |-> now + ResetCodeMinutes,
                                             used |-> FALSE])
             /\ last' = [NoCall EXCEPT !.op = "forgotPassword", !.id = users[i].id,
                           !.email = email, !.res = token,
                           !.prev = IF existingIndex # 0
                                    THEN resetTokens[existingIndex].token ELSE NoCode]
  /\ UNCHANGED <<config, now, ticks, docs, users, passwords, sessions, nextToken,
                 inflight, issued, consumed, tempPassword, tempLogins, revoked>>

\* a find that takes any code stored for the address
MemResetLookupAnyCode(token, email) ==
  FirstIndex({t \in DOMAIN resetTokens : resetTokens[t].email = email /\ ~resetTokens[t].used})

\* resetTokens.find(t => t.token === token && t.email === email && !t.used)
MemResetLookup(token, email) ==
  FirstIndex({t \in DOMAIN resetTokens : resetTokens[t].token = token /\ resetTokens[t].email = email /\ ~resetTokens[t].used})

\* AuthService.verifyResetToken (backend-express): an expired entry is removed
MemVerifyResetToken(token, email) ==
  /\ variant = "express"
  /\ LET k == MemResetLookup(token, email)
     IN IF k = 0
        THEN UNCHANGED <<resetTokens, last>>
        ELSE IF now > resetTokens[k].expiresAt
        THEN /\ resetTokens' = Splice(resetTokens, k)
             /\ last' = [NoCall EXCEPT !.op = "verifyResetToken", !.email = email,
                           !.code = token, !.res = "false"]
        ELSE UNCHANGED <<resetTokens, last>>
  /\ UNCHANGED <<config, now, ticks, writes, docs, users, passwords, sessions, nextToken,
                 inflight, historyVars>>

\* AuthService.resetPasswordWithToken (backend-express)
MemResetPasswordWithToken(token, email, newPassword) ==
  /\ variant = "express"
  /\ LET k == MemResetLookup(token, email)
         i == FirstIndex({u \in DOMAIN users : users[u].email = email /\ users[u].isActive})
     IN IF k = 0 \/ (k # 0 /\ now > resetTokens[k].expiresAt) \/ i = 0
        THEN UNCHANGED <<writes, passwords, resetTokens, consumed, minted, last>>
        ELSE /\ writes < MaxWrites
             /\ writes' = writes + 1
             /\ passwords' = PutPassword(passwords, email, newPassword)
             /\ resetTokens' = Splice(resetTokens, k)
             /\ consumed' = consumed \cup {<<email, token>>}
             /\ minted' = Burn(minted, email)
             /\ last' = [NoCall EXCEPT !.op = "resetPassword", !.id = users[i].id,
                           !.email = email, !.code = token, !.pw = newPassword,
                           !.old = PasswordOf(passwords, email), !.res = "true"]
  /\ UNCHANGED <<config, now, ticks, docs, users, sessions, nextToken, inflight,
                 issued, tempPassword, tempLogins, revoked>>

\* AuthService.cleanExpiredTokens: keeps the entries with expiresAt > now
CleanExpiredTokens ==
  /\ variant = "express"
  /\ LET Keep(seq) == SelectSeq(seq, LAMBDA t : t.expiresAt > now)
     IN resetTokens' = Keep(resetTokens)
  /\ last' = IF resetTokens' = resetTokens THEN last
             ELSE [NoCall EXCEPT !.op = "cleanExpiredTokens", !.res = "void"]
  /\ UNCHANGED <<config, now, ticks, writes, docs, users, passwords, sessions, nextToken,
                 inflight, historyVars>>

\* ------------------------------------------------------- bearer-token gate
\* the `authenticate` middleware: the user id a bearer token resolves to, 0
\* when the request is answered 401
CurrentUser(t) == IF variant \in MongoVariants THEN GetUserByToken(t) ELSE GetSession(t)

\* GET /me
GetCurrentUser(t) ==
  /\ CurrentUser(t) \in Nat
  /\ UNCHANGED vars

\* ================================================================ machine
\* the administrator account the database is seeded with
InitialAdmin ==
  [email |-> AdminEmail, password |-> Hash("admin123"), role |-> "admin",
   isActive |-> TRUE, isTemporaryPassword |-> FALSE, temporaryPasswordExpires |-> NoDate,
   resetPasswordToken |-> NoCode, resetPasswordExpires |-> NoDate]

InitCommon ==
  /\ now = 0 /\ ticks = 0 /\ writes = 0
  /\ sessions = {} /\ nextToken = 0
  /\ inflight = [p \in Procs |-> Idle]
  /\ last = NoCall
  /\ issued = {} /\ consumed = {}
  /\ minted = {} /\ revoked = {}
  /\ gate = NoRequest
  /\ client = NoClient

NodeEnvs == {"development", "production"}

InitMongo ==
  /\ variant \in MongoVariants
  /\ nodeEnv \in NodeEnvs
  /\ docs = <<InitialAdmin>>
  /\ users = <<>> /\ passwords = {} /\ resetTokens = <<>>
  /\ tempPassword = <<NoPassword>> /\ tempLogins = <<0>>
  /\ InitCommon

InitMemory ==
  /\ variant \in MemoryVariants
  /\ nodeEnv = "production"
  /\ docs = <<>>
  /\ users = InitialUsers /\ passwords = InitialPasswords /\ resetTokens = <<>>
  /\ tempPassword = <<>> /\ tempLogins = <<>>
  /\ InitCommon

Init == InitMongo \/ InitMemory

UserIds == 0..MaxUsers
MemoryIds == {1, 2, 9}

MongoNext ==
  \/ \E e \in MongoEmails, p \in PasswordInputs : Login(e, p) /\ UNCHANGED front
  \/ \E e \in MongoEmails, r \in CreateRoles : CreateUser(e, r) /\ UNCHANGED front
  \/ \E id \in UserIds : DeactivateUser(id) /\ UNCHANGED front
  \/ \E id \in UserIds : ActivateUser(id) /\ UNCHANGED front
  \/ \E id \in UserIds, p \in PasswordInputs : ChangePassword(id, p) /\ UNCHANGED front
  \/ \E id \in UserIds, e \in MongoEmails : UpdateProfile(id, e) /\ UNCHANGED front
  \/ \E e \in RouteEmails : GenerateResetToken(e) /\ UNCHANGED front
  \/ \E c \in Codes, e \in MongoEmails : VerifyResetToken(c, e)
  \/ \E c \in Codes, e \in MongoEmails, p \in PasswordInputs : ResetPasswordWithToken(c, e, p) /\ UNCHANGED front

MemoryNext ==
  \/ \E e \in MemoryEmails, p \in PasswordInputs : MemLogin(e, p) /\ UNCHANGED front
  \/ \E t \in issued : Logout(t) /\ UNCHANGED front
  \/ \E e \in MemoryEmails, r \in CreateRoles : MemCreateUser(e, r) /\ UNCHANGED front
  \/ \E id \in MemoryIds : MemDeactivateUser(id) /\ UNCHANGED front
  \/ \E id \in MemoryIds, p \in PasswordInputs : MemChangePassword(id, p) /\ UNCHANGED front
  \/ \E id \in MemoryIds, e \in MemoryEmails : MemUpdateProfile(id, e) /\ UNCHANGED front
  \/ \E e \in MemoryEmails : MemGenerateResetToken(e) /\ UNCHANGED front
  \/ \E c \in Codes, e \in MemoryEmails : MemVerifyResetToken(c, e) /\ UNCHANGED front
  \/ \E c \in Codes, e \in MemoryEmails, p \in PasswordInputs : MemResetPasswordWithToken(c, e, p) /\ UNCHANGED front
  \/ CleanExpiredTokens /\ UNCHANGED front

Next ==
  \/ MongoNext
  \/ MemoryNext
  \/ \E t \in issued : GetCurrentUser(t)
  \/ \E d \in TickSteps : Tick(d) /\ UNCHANGED front

Spec == Init /\ [][Next]_vars

\* two resetPasswordWithToken requests served concurrently by the MongoDB
\* service: each await is a point where the other request may run
RaceNext ==
  \/ GenerateResetToken(AdminEmail) /\ UNCHANGED front
  \/ \E p \in Procs, c \in Codes, pw \in PasswordInputs : ResetFind(p, c, AdminEmail, pw) /\ UNCHANGED front
  \/ \E p \in Procs : ResetSave(p) /\ UNCHANGED front
  \/ \E p \in Procs : ResetReturn(p) /\ UNCHANGED front
  \/ \E d \in TickSteps : Tick(d) /\ UNCHANGED front

RaceInit == InitMongo /\ nodeEnv = "production"

SpecRace == RaceInit /\ [][RaceNext]_vars

\* ======================================================= protected routes
\* The Authorization header as pieces: scheme, separator, token.
NoHeader == <<>>

\* authHeader.startsWith("Bearer ")
StartsWithBearer(h) == Len(h) >= 2 /\ h[1] = "Bearer" /\ h[2] = " "

\* authHeader.substring(7)
Substring7(h) == h[3]

\* a token the server never handed out
ForgedToken == [userId |-> 1, iat |-> 0, nonce |-> 7]

\* the headers a client may send: none, a lower-case scheme, a bearer token
Headers ==
  {NoHeader}
    \cup {<<"bearer", " ", t>> : t \in issued}
    \cup {<<"Bearer", " ", t>> : t \in issued \cup {ForgedToken}}

\* a middleware that resolves the token before it looks at the header's shape
AuthenticateResolvesFirst(h) ==
  IF h = NoHeader
  THEN [status |-> 401, body |-> "No token provided", user |-> 0,
        called |-> FALSE, next |-> FALSE]
  ELSE LET user == CurrentUser(Substring7(h))
       IN IF ~StartsWithBearer(h) \/ user = 0
          THEN [status |-> 401, body |-> "Invalid or expired token", user |-> 0,
                called |-> TRUE, next |-> FALSE]
          ELSE [status |-> 0, body |-> "none", user |-> user, called |-> TRUE, next |-> TRUE]

\* the `authenticate` middleware: the response it sends itself (status 0 if
\* none), the user it puts in req.user, whether it invoked the AuthService
\* and whether it called next()
Authenticate(h) ==
  IF h = NoHeader \/ ~StartsWithBearer(h)
  THEN [status |-> 401, body |-> "No token provided", user |-> 0,
        called |-> FALSE, next |-> FALSE]
  ELSE LET user == CurrentUser(Substring7(h))
       IN IF user = 0
          THEN [status |-> 401, body |-> "Invalid or expired token", user |-> 0,
                called |-> TRUE, next |-> FALSE]
          ELSE [status |-> 0, body |-> "none", user |-> user, called |-> TRUE, next |-> TRUE]

\* req.user.role: read from the document (MongoDB) or kept in the session
RoleOf(h) ==
  IF variant \in MongoVariants
  THEN docs[CurrentUser(Substring7(h))].role
  ELSE (CHOOSE e \in sessions : e.token = Substring7(h)).user.role

\* the record of a request the middleware answered itself
Refused(route, h, target, arg) ==
  [route |-> route, header |-> h, target |-> target, arg |-> arg, by |-> 0,
   status |-> Authenticate(h).status, body |-> Authenticate(h).body,
   called |-> Authenticate(h).called, ran |-> FALSE]

\* the record of a request that got past `authenticate`
Passed(route, h, target, arg, status, body) ==
  [route |-> route, header |-> h, target |-> target, arg |-> arg,
   by |-> Authenticate(h).user, status |-> status, body |-> body,
   called |-> TRUE, ran |-> TRUE]

\* GET /me
GetMe(h) ==
  /\ gate' = IF Authenticate(h).next
             THEN Passed("GET /me", h, 0, "none", 200, "user")
             ELSE Refused("GET /me", h, 0, "none")
  /\ UNCHANGED served

\* POST /logout (unnamed/part_009): authenticate, then AuthService.logout
PostLogout(h) ==
  /\ variant \in MemoryVariants
  /\ IF Authenticate(h).next
     THEN /\ Logout(Substring7(h))
          /\ gate' = Passed("POST /logout", h, 0, "none", 200, "Logged out successfully")
     ELSE /\ UNCHANGED served
          /\ gate' = Refused("POST /logout", h, 0, "none")

\* the record exists
Exists(id) ==
  IF variant \in MongoVariants THEN FindById(id) # 0
  ELSE \E i \in DOMAIN users : users[i].id = id

\* DELETE /users/:id: authenticate, requireAdmin, the self check, then
\* AuthService.deactivateUser
DeleteUser(h, id) ==
  IF ~Authenticate(h).next
  THEN /\ UNCHANGED served
       /\ gate' = Refused("DELETE /users/:id", h, id, "none")
  ELSE IF RoleOf(h) # "admin"
  THEN /\ UNCHANGED served
       /\ gate' = Passed("DELETE /users/:id", h, id, "none", 403, "Admin access required")
  ELSE IF Authenticate(h).user = id
  THEN /\ UNCHANGED served
       /\ gate' = Passed("DELETE /users/:id", h, id, "none", 400,
                         "Cannot deactivate your own account")
  ELSE /\ DeactivateUser(id) \/ MemDeactivateUser(id)
       /\ gate' = IF ~Exists(id)
                  THEN Passed("DELETE /users/:id", h, id, "none", 404, "User not found")
                  ELSE IF variant = "memory"
                  THEN Passed("DELETE /users/:id", h, id, "none", 500,
                              "Failed to deactivate user")
                  ELSE Passed("DELETE /users/:id", h, id, "none", 200,
                              "User deactivated successfully")

\* UserModel.findByIdAndUpdate(id, { isActive }) of PUT /api/users/:id
UpdateUser(id, isActive) ==
  /\ variant = "backend"
  /\ IF FindById(id) = 0
     THEN UNCHANGED <<writes, docs, last>>
     ELSE /\ writes < MaxWrites
          /\ writes' = writes + 1
          /\ docs' = [docs EXCEPT ![id].isActive = isActive]
          /\ last' = [NoCall EXCEPT !.op = "updateUser", !.id = id, !.res = "ok",
                        !.status = 200]
  /\ UNCHANGED <<config, now, ticks, memoryVars, inflight, historyVars>>

\* PUT /api/users/:id (backend/src/routes/user.ts) with { isActive } in the
\* body: authenticate, requireAdmin, the update
PutUser(h, id, isActive) ==
  /\ variant = "backend"
  /\ LET arg == IF isActive THEN "isActive: true" ELSE "isActive: false"
     IN IF ~Authenticate(h).next
        THEN /\ UNCHANGED served
             /\ gate' = Refused("PUT /:id", h, id, arg)
        ELSE IF RoleOf(h) # "admin"
        THEN /\ UNCHANGED served
             /\ gate' = Passed("PUT /:id", h, id, arg, 403, "Admin access required")
        ELSE /\ UpdateUser(id, isActive)
             /\ gate' = IF ~Exists(id)
                        THEN Passed("PUT /:id", h, id, arg, 404, "User not found")
                        ELSE Passed("PUT /:id", h, id, arg, 200, "user")

\* POST /api/users/:id/deactivate (backend/src/routes/user.ts): authenticate,
\* requireAdmin, the self check, findByIdAndUpdate(id, { isActive: false })
PostDeactivate(h, id) ==
  /\ variant = "backend"
  /\ IF ~Authenticate(h).next
     THEN /\ UNCHANGED served
          /\ gate' = Refused("POST /:id/deactivate", h, id, "none")
     ELSE IF RoleOf(h) # "admin"
     THEN /\ UNCHANGED served
          /\ gate' = Passed("POST /:id/deactivate", h, id, "none", 403, "Admin access required")
     ELSE IF Authenticate(h).user = id
     THEN /\ UNCHANGED served
          /\ gate' = Passed("POST /:id/deactivate", h, id, "none", 400,
                            "Cannot deactivate your own account")
     ELSE /\ DeactivateUser(id)
          /\ gate' = IF ~Exists(id)
                     THEN Passed("POST /:id/deactivate", h, id, "none", 404, "User not found")
                     ELSE Passed("POST /:id/deactivate", h, id, "none", 200,
                                 "User deactivated successfully")

\* POST /change-password: authenticate, then AuthService.changePassword for
\* req.user.id (the passwords offered all have six characters or more)
PostChangePassword(h, newPassword) ==
  IF ~Authenticate(h).next
  THEN /\ UNCHANGED served
       /\ gate' = Refused("POST /change-password", h, 0, newPassword)
  ELSE /\ \/ ChangePassword(Authenticate(h).user, newPassword)
          \/ MemChangePassword(Authenticate(h).user, newPassword)
       /\ gate' = IF ~Exists(Authenticate(h).user)
                  THEN Passed("POST /change-password", h, Authenticate(h).user, newPassword,
                              404, "User not found")
                  ELSE Passed("POST /change-password", h, Authenticate(h).user, newPassword,
                              200, "Password changed successfully")

\* the credentials offered to POST /login in front of the protected routes
RouteCredentials ==
  {<<AdminEmail, "admin123">>, <<MarieEmail, "marie123">>, <<BobEmail, "aB3dE6gH9jK2">>}

\* the ids a route parameter may carry
RouteIds == IF variant \in MongoVariants THEN UserIds ELSE MemoryIds

\* the new password offered to POST /change-password
RoutePasswords == {"admin123"}

\* the clock moves past the temporary password's window
RouteTickSteps == {TemporaryWindow + ResetCodeMinutes}

RouteNext ==
  \/ \E c \in RouteCredentials : Login(c[1], c[2]) /\ UNCHANGED front
  \/ \E c \in RouteCredentials : MemLogin(c[1], c[2]) /\ UNCHANGED front
  \/ \E r \in CreateRoles : CreateUser(BobEmail, r) /\ UNCHANGED front
  \/ \E d \in RouteTickSteps : Tick(d) /\ UNCHANGED front
  \/ \E h \in Headers : GetMe(h) /\ UNCHANGED client
  \/ \E h \in Headers : PostLogout(h) /\ UNCHANGED client
  \/ \E h \in Headers, id \in RouteIds : DeleteUser(h, id) /\ UNCHANGED client
  \/ \E h \in Headers, id \in RouteIds, isActive \in BOOLEAN : PutUser(h, id, isActive) /\ UNCHANGED client
  \/ \E h \in Headers, id \in RouteIds : PostDeactivate(h, id) /\ UNCHANGED client
  \/ \E h \in Headers, p \in RoutePasswords : PostChangePassword(h, p) /\ UNCHANGED client

RoutesInit == Init /\ nodeEnv = "production"

SpecRoutes == RoutesInit /\ [][RouteNext]_vars

\* ============================================================= admin routes
\* the UserRole type
Roles == {"admin", "user", "viewer"}

\* the role values a request body may carry
RoleInputs == {"user", "superadmin"}

\* AuthServiceMongo.updateUserRole: findByIdAndUpdate(userId, { role })
UpdateUserRole(id, role) ==
  /\ variant \in MongoVariants
  /\ IF FindById(id) = 0
     THEN UNCHANGED <<writes, docs, last>>
     ELSE /\ writes < MaxWrites
          /\ writes' = writes + 1
          /\ docs' = [docs EXCEPT ![id].role = role]
          /\ last' = [NoCall EXCEPT !.op = "updateUserRole", !.id = id, !.res = "ok",
                        !.status = 200]
  /\ UNCHANGED <<config, now, ticks, memoryVars, inflight, historyVars>>

\* AuthService.updateUserRole (in-memory): user.role = role, sessions untouched
MemUpdateUserRole(id, role) ==
  /\ variant \in MemoryVariants
  /\ LET i == FirstIndex({u \in DOMAIN users : users[u].id = id})
     IN IF i = 0
        THEN UNCHANGED <<writes, users, last>>
        ELSE /\ writes < MaxWrites
             /\ writes' = writes + 1
             /\ users' = [users EXCEPT ![i].role = role]
             /\ last' = [NoCall EXCEPT !.op = "updateUserRole", !.id = id, !.res = "ok",
                           !.status = 200]
  /\ UNCHANGED <<config, now, ticks, docs, passwords, resetTokens, sessions, nextToken,
                 inflight, historyVars>>

\* a role check that lets every authenticated requester through
EveryoneIsAdmin(h) == TRUE

\* requireAdmin: req.user.role is "admin"
RequireAdmin(h) == RoleOf(h) = "admin"

\* the routers over MongoDB accept a role only from the enumeration; the
\* in-memory router (unnamed/part_009) only asks for a non-empty value
RoleAccepted(role) == variant \in MemoryVariants \/ role \in Roles

\* GET /users: authenticate, requireAdmin, getAllUsers
GetUsers(h) ==
  /\ gate' = IF ~Authenticate(h).next
             THEN Refused("GET /users", h, 0, "none")
             ELSE IF ~RequireAdmin(h)
             THEN Passed("GET /users", h, 0, "none", 403, "Admin access required")
             ELSE Passed("GET /users", h, 0, "none", 200, "users")
  /\ UNCHANGED served

\* the address is stored already (AuthServiceMongo.createUser throws
\* "User already exists"; the in-memory service never looks)
AlreadyExists(email) ==
  /\ variant \in MongoVariants
  /\ \E d \in DOMAIN docs : docs[d].email = ToLowerCase(email)

\* POST /users: authenticate, requireAdmin, the body checks, createUser
PostUsers(h, email, role) ==
  IF ~Authenticate(h).next
  THEN /\ UNCHANGED served
       /\ gate' = Refused("POST /users", h, 0, role)
  ELSE IF ~RequireAdmin(h)
  THEN /\ UNCHANGED served
       /\ gate' = Passed("POST /users", h, 0, role, 403, "Admin access required")
  ELSE IF ~RoleAccepted(role)
  THEN /\ UNCHANGED served
       /\ gate' = Passed("POST /users", h, 0, role, 400, "Invalid role")
  ELSE /\ CreateUser(email, role) \/ MemCreateUser(email, role)
       /\ gate' = IF AlreadyExists(email)
                  THEN Passed("POST /users", h, 0, role, 409, "User already exists")
                  ELSE Passed("POST /users", h, 0, role, 201, "user")

\* PUT /users/:id/role: authenticate, requireAdmin, the body check,
\* updateUserRole
PutRole(h, id, role) ==
  IF ~Authenticate(h).next
  THEN /\ UNCHANGED served
       /\ gate' = Refused("PUT /users/:id/role", h, id, role)
  ELSE IF ~RequireAdmin(h)
  THEN /\ UNCHANGED served
       /\ gate' = Passed("PUT /users/:id/role", h, id, role, 403, "Admin access required")
  ELSE IF ~RoleAccepted(role)
  THEN /\ UNCHANGED served
       /\ gate' = Passed("PUT /users/:id/role", h, id, role, 400, "Valid role is required")
  ELSE /\ UpdateUserRole(id, role) \/ MemUpdateUserRole(id, role)
       /\ gate' = IF ~Exists(id)
                  THEN Passed("PUT /users/:id/role", h, id, role, 404, "User not found")
                  ELSE Passed("PUT /users/:id/role", h, id, role, 200, "user")

RolesNext ==
  \/ \E c \in RouteCredentials : Login(c[1], c[2]) /\ UNCHANGED front
  \/ \E c \in RouteCredentials : MemLogin(c[1], c[2]) /\ UNCHANGED front
  \/ \E h \in Headers : GetUsers(h) /\ UNCHANGED client
  \/ \E h \in Headers, r \in RoleInputs : PostUsers(h, BobEmail, r) /\ UNCHANGED client
  \/ \E h \in Headers, id \in RouteIds, r \in RoleInputs : PutRole(h, id, r) /\ UNCHANGED client
  \/ \E h \in Headers, id \in RouteIds : DeleteUser(h, id) /\ UNCHANGED client

SpecRoles == RoutesInit /\ [][RolesNext]_vars

\* ================================================= /api/auth dispatch
\* createServer (server/index.ts): each request to /api/auth goes to the
\* MongoDB routes while the connection is up and to the in-memory routes
\* otherwise; both stores live in the same process.
unrouted == <<nodeEnv, now, ticks, writes, docs, users, passwords, resetTokens,
              sessions, nextToken, inflight, last, issued, consumed, tempPassword,
              tempLogins, minted, revoked, gate, client>>

\* mongoose.connection.on('connected'): useMongoAuth = true, readyState 1
Connected ==
  /\ variant = "express"
  /\ variant' = "mongo"
  /\ UNCHANGED unrouted

\* mongoose.connection.on('error') or a lost connection: readyState is not 1
ConnectionLost ==
  /\ variant = "mongo"
  /\ variant' = "express"
  /\ UNCHANGED unrouted

\* the server starts on the in-memory routes, with the database seeded
DispatchInit ==
  /\ variant = "express"
  /\ nodeEnv = "production"
  /\ docs = <<InitialAdmin>>
  /\ users = InitialUsers /\ passwords = InitialPasswords /\ resetTokens = <<>>
  /\ tempPassword = <<NoPassword>> /\ tempLogins = <<0>>
  /\ InitCommon

DispatchNext ==
  \/ Connected
  \/ ConnectionLost
  \/ \E c \in RouteCredentials : Login(c[1], c[2]) /\ UNCHANGED front
  \/ \E c \in RouteCredentials : MemLogin(c[1], c[2]) /\ UNCHANGED front
  \/ \E d \in RouteTickSteps : Tick(d) /\ UNCHANGED front
  \/ \E h \in Headers : GetMe(h) /\ UNCHANGED client
  \/ \E h \in Headers : PostLogout(h) /\ UNCHANGED client
  \/ \E h \in Headers, id \in RouteIds : DeleteUser(h, id) /\ UNCHANGED client

SpecDispatch == DispatchInit /\ [][DispatchNext]_vars

\* ========================================= profile changes and reset codes
\* the state-changing calls a behaviour of SpecProfile may make
MaxProfileWrites == 4

\* the users whose profile changes and the addresses they move between
ProfileIds == {1, 2}
ProfileEmails == {MarieEmail, BobEmail}

\* the in-memory service of backend-express after construction
ProfileInit ==
  /\ variant = "express"
  /\ nodeEnv = "production"
  /\ docs = <<>>
  /\ users = InitialUsers /\ passwords = InitialPasswords /\ resetTokens = <<>>
  /\ tempPassword = <<>> /\ tempLogins = <<>>
  /\ now = 0 /\ ticks = 0 /\ writes = MaxWrites - MaxProfileWrites
  /\ sessions = {} /\ nextToken = 0
  /\ inflight = [p \in Procs |-> Idle]
  /\ last = NoCall
  /\ issued = {} /\ consumed = {}
  /\ minted = {} /\ revoked = {}
  /\ gate = NoRequest
  /\ client = NoClient

ProfileNext ==
  \/ \E e \in ProfileEmails : MemGenerateResetToken(e) /\ UNCHANGED front
  \/ \E id \in ProfileIds, e \in ProfileEmails : MemUpdateProfile(id, e) /\ UNCHANGED front
  \/ \E c \in Codes, e \in ProfileEmails, p \in TemporaryPasswords :
       MemResetPasswordWithToken(c, e, p) /\ UNCHANGED front
  \/ \E d \in {ResetCodeMinutes} : Tick(d) /\ UNCHANGED front

SpecProfile == ProfileInit /\ [][ProfileNext]_vars

\* ================================================================= browser
\* the three App components of unnamed/part_003
Apps == {1, 2, 3}

\* the locations a visitor may open
Paths == {"/", "/login", "/admin/users", "/user-management"}

\* hasRole(roles): user ? roles.includes(user.role) : false
HasRole(c, roles) == c.user # "null" /\ c.user \in roles

\* ProtectedRoute: the spinner while loading, the redirect to /login for a
\* visitor, the refusal for a missing role, the children otherwise
\* (requireRoles = {} stands for the prop left undefined)
ProtectedRoute(c, requireRoles, children) ==
  IF c.isLoading THEN "spinner"
  ELSE IF c.user = "null" THEN "Navigate /login"
  ELSE IF requireRoles # {} /\ ~HasRole(c, requireRoles) THEN "Acces refuse"
  ELSE children

\* AdminRoute: ProtectedRoute with requireRoles = ["admin"]
AdminRoute(c, children) == ProtectedRoute(c, {"admin"}, children)

\* AuthenticatedRoute takes `children` only: whatever else the caller passes
\* (the App components pass requiredRoles) is dropped
AuthenticatedRoute(c, children) == ProtectedRoute(c, {}, children)

\* <Routes> of the App component c.app at location c.path
View(c) ==
  IF c.path = "/login" THEN "Login"
  ELSE IF c.path = "/" THEN AuthenticatedRoute(c, "Index")
  ELSE IF c.path = "/admin/users"
  THEN IF c.app = 2 THEN AdminRoute(c, "AdminUsers") ELSE AuthenticatedRoute(c, "AdminUsers")
  ELSE IF c.app = 3 THEN "NotFound"
  ELSE IF c.app = 2 THEN AdminRoute(c, "UserManagement")
  ELSE AuthenticatedRoute(c, "UserManagement")

\* the page is loaded: useState(null), useState(true), then the effect
Mount(app, stored, path) ==
  /\ client.pc = "unmounted"
  /\ client' = [app |-> app, pc |-> "initializeAuth", user |-> "null", isLoading |-> TRUE,
                stored |-> stored, path |-> path]

\* initializeAuth up to its first await
InitializeAuth ==
  /\ client.pc = "initializeAuth"
  /\ client' = IF client.stored
               THEN [client EXCEPT !.isLoading = TRUE, !.pc = "getCurrentUser"]
               ELSE [client EXCEPT !.isLoading = FALSE, !.pc = "idle"]

\* authService.getCurrentUser() resolves: setUser(currentUser), finally
GetCurrentUserResolves(role) ==
  /\ client.pc = "getCurrentUser"
  /\ client' = [client EXCEPT !.user = role, !.isLoading = FALSE, !.pc = "idle"]

\* authService.getCurrentUser() rejects: on to authService.logout()
GetCurrentUserRejects ==
  /\ client.pc = "getCurrentUser"
  /\ client' = [client EXCEPT !.pc = "clearing"]

\* authService.logout() resolves, or rejects and clearAuth() runs; then
\* setUser(null), finally
VerificationFailed ==
  /\ client.pc = "clearing"
  /\ client' = [client EXCEPT !.stored = FALSE, !.user = "null", !.isLoading = FALSE,
                              !.pc = "idle"]

\* login(credentials) up to its await
ClientLogin ==
  /\ client.pc = "idle" /\ client.path = "/login"
  /\ client' = [client EXCEPT !.isLoading = TRUE, !.pc = "login"]

\* authService.login resolves: setUser(response.user), finally
ClientLoginResolves(role) ==
  /\ client.pc = "login"
  /\ client' = [client EXCEPT !.user = role, !.stored = TRUE, !.isLoading = FALSE,
                              !.pc = "idle"]

\* authService.login rejects: the error is rethrown, finally
ClientLoginRejects ==
  /\ client.pc = "login"
  /\ client' = [client EXCEPT !.isLoading = FALSE, !.pc = "idle"]

\* logout() up to its await (AppHeader.handleLogout)
ClientLogout ==
  /\ client.pc = "idle" /\ client.user # "null"
  /\ client' = [client EXCEPT !.isLoading = TRUE, !.pc = "logout"]

\* authService.logout() resolves: setUser(null), finally
ClientLogoutResolves ==
  /\ client.pc = "logout"
  /\ client' = [client EXCEPT !.user = "null", !.stored = FALSE, !.isLoading = FALSE,
                              !.pc = "idle"]

\* authService.logout() rejects: the catch block logs, finally
ClientLogoutRejects ==
  /\ client.pc = "logout"
  /\ client' = [client EXCEPT !.isLoading = FALSE, !.pc = "idle"]

\* the visitor opens a location, or <Navigate to="/login"> is followed
Navigate(path) ==
  /\ client.pc # "unmounted"
  /\ View(client) = "Navigate /login" => path = "/login"
  /\ client' = [client EXCEPT !.path = path]

ClientNext ==
  \/ \E app \in Apps, stored \in BOOLEAN, path \in Paths :
       Mount(app, stored, path) /\ UNCHANGED <<served, gate>>
  \/ InitializeAuth /\ UNCHANGED <<served, gate>>
  \/ \E role \in Roles : GetCurrentUserResolves(role) /\ UNCHANGED <<served, gate>>
  \/ GetCurrentUserRejects /\ UNCHANGED <<served, gate>>
  \/ VerificationFailed /\ UNCHANGED <<served, gate>>
  \/ ClientLogin /\ UNCHANGED <<served, gate>>
  \/ \E role \in Roles : ClientLoginResolves(role) /\ UNCHANGED <<served, gate>>
  \/ ClientLoginRejects /\ UNCHANGED <<served, gate>>
  \/ ClientLogout /\ UNCHANGED <<served, gate>>
  \/ ClientLogoutResolves /\ UNCHANGED <<served, gate>>
  \/ ClientLogoutRejects /\ UNCHANGED <<served, gate>>
  \/ \E path \in Paths : Navigate(path) /\ UNCHANGED <<served, gate>>

ClientInit == InitMongo /\ variant = "mongo" /\ nodeEnv = "production"

SpecClient == ClientInit /\ [][ClientNext]_vars

\* ------------------------------------------------- what a call would return
\* verifyResetToken(token, email) in the current state
VerifyResetTokenResult(token, email) ==
  IF variant \in MongoVariants
  THEN ResetLookup(token, email) # 0
  ELSE LET k == MemResetLookup(token, email)
       IN k # 0 /\ ~(now > resetTokens[k].expiresAt)

\* resetPasswordWithToken(token, email, _) in the current state
ResetPasswordResult(token, email) ==
  IF variant \in MongoVariants
  THEN ResetLookup(token, email) # 0
  ELSE LET k == MemResetLookup(token, email)
       IN /\ k # 0 /\ ~(now > resetTokens[k].expiresAt)
          /\ FirstIndex({u \in DOMAIN users : users[u].email = email /\ users[u].isActive}) # 0

\* login(email, password) in the current state: ok, error, requiresPasswordChange
LoginOutcome(email, password) ==
  IF variant \in MongoVariants
  THEN [ok |-> LoginResult(email, password).ok, error |-> LoginResult(email, password).error,
        rpc |-> LoginResult(email, password).rpc]
  ELSE [ok |-> MemLoginResult(email, password).ok,
        error |-> MemLoginResult(email, password).error, rpc |-> FALSE]

\* the password kept for the account with this address is `password`
StoredPasswordIs(email, password) ==
  IF variant \in MongoVariants
  THEN \E i \in DOMAIN docs : docs[i].email = email /\ ComparePassword(password, docs[i].password)
  ELSE PasswordOf(passwords, email) = password

\* ================================================================ claims
Addresses == {AdminEmail, BobEmail, BobEmailUpper, MarieEmail, MarieEmailUpper}

Rejected(pair) ==
  /\ ~VerifyResetTokenResult(pair[2], pair[1])
  /\ ~ResetPasswordResult(pair[2], pair[1])

\* the step is a call that stores a code or moves an account to another address
Rearms == writes' # writes /\ last'.op \in {"forgotPassword", "updateProfile"}

AcceptedCodes(email) ==
  {c \in Codes : VerifyResetTokenResult(c, email) \/ ResetPasswordResult(c, email)}

AtMostOneCode == \A e \in Addresses : Cardinality(AcceptedCodes(e)) <= 1

\* C2 (as the spec states it): every user has at most one accepted reset
\* code, and after a second generateResetToken(email) the code the first call
\* returned is no longer accepted.
C2_AsStated ==
  /\ AtMostOneCode
  /\ (last.op = "forgotPassword" /\ last.prev # NoCode)
       => last.prev \notin AcceptedCodes(last.email)

\* C2 (amended): every user has at most one accepted reset code, and after a
\* second generateResetToken(email) the code the first call returned is no
\* longer accepted unless the second call drew the same six digits.
C2_OneLiveCode ==
  /\ AtMostOneCode
  /\ (last.op = "forgotPassword" /\ last.prev # NoCode /\ last.prev # last.res)
       => last.prev \notin AcceptedCodes(last.email)

\* a second generateResetToken replaced a different first code, and the new
\* code is the one accepted
C2_Witness ==
  /\ last.op = "forgotPassword" /\ last.prev # NoCode /\ last.prev # last.res
  /\ AcceptedCodes(last.email) = {last.res}

\* C3: of two concurrent resetPasswordWithToken requests with the same valid
\* code and email, at most one reports success: no request returns true after
\* the other one consumed the code between its findOne and its save.
C3_AtomicConsume ==
  \A p \in Procs : ~(inflight[p].pc = "done" /\ inflight[p].res = "true" /\ inflight[p].raced)

\* the account a bearer token was issued to exists and is inactive
Deactivated(id) ==
  IF variant \in MongoVariants
  THEN id \in DOMAIN docs /\ ~docs[id].isActive
  ELSE \E i \in DOMAIN users : users[i].id = id /\ ~users[i].isActive

\* C4: while a user is inactive, every token login issued to that user is
\* rejected by the bearer-token gate (getCurrentUser answers Unauthenticated).
C4_TokensInvalidated == \A t \in issued : Deactivated(t.userId) => CurrentUser(t) = 0

\* the passwords a caller may try against account i: the inputs and the right one
Candidates(i) == PasswordInputs \cup {docs[i].password.bcrypt}

\* C5 (as the spec states it): for a user with isTemporaryPassword, once the
\* 24 hours since the temporary password was set have elapsed, login fails
\* for every password.
C5_AsStated ==
  \A i \in DOMAIN docs :
    (docs[i].isTemporaryPassword /\ now >= docs[i].temporaryPasswordExpires)
      => \A p \in Candidates(i) : ~LoginResult(docs[i].email, p).ok

\* C5 (amended): for a user with isTemporaryPassword, once more than 24
\* hours have passed since the temporary password was set, login fails for
\* every password, the right one included; at exactly 24 hours it still works.
C5_ExpiredTemporaryFails ==
  \A i \in DOMAIN docs :
    (docs[i].isTemporaryPassword /\ now > docs[i].temporaryPasswordExpires)
      => \A p \in Candidates(i) : ~LoginResult(docs[i].email, p).ok

\* an active account still holds the temporary password createUser returned,
\* and more than the 24-hour window has passed
C5_Witness ==
  \E i \in DOMAIN docs :
    /\ docs[i].isActive /\ docs[i].isTemporaryPassword
    /\ now > docs[i].temporaryPasswordExpires
    /\ tempPassword[i] # NoPassword /\ ComparePassword(tempPassword[i], docs[i].password)

\* C6 (as the spec states it): the temporary password createUser returned
\* gives one successful login and no second one.
C6_AsStated == \A i \in DOMAIN tempLogins : tempLogins[i] <= 1

\* C6 (amended): for a user made by createUser (MongoDB services), while the
\* account is active, the temporary password has not been replaced and its
\* 24 hours have not run out, login with that password succeeds on every
\* attempt, a first one or a repeated one, and each success carries
\* requiresPasswordChange = true.
C6_TemporaryLogin ==
  /\ \A i \in DOMAIN docs :
       (tempPassword[i] # NoPassword /\ docs[i].isActive
          /\ now <= docs[i].temporaryPasswordExpires)
         => /\ LoginResult(docs[i].email, tempPassword[i]).ok
            /\ LoginResult(docs[i].email, tempPassword[i]).rpc
  /\ (variant \in MongoVariants /\ last.op = "login" /\ tempPassword[last.id] = last.pw)
       => last.rpc

\* the same temporary password has just logged in for the second time
C6_Witness ==
  \E i \in DOMAIN tempLogins :
    tempLogins[i] = 2 /\ last.op = "login" /\ last.id = i /\ last.rpc

\* the account with this id is active
Active(id) ==
  IF variant \in MongoVariants
  THEN id \in DOMAIN docs /\ docs[id].isActive
  ELSE \E i \in DOMAIN users : users[i].id = id /\ users[i].isActive

\* the temporary-password fields of account id are cleared (the in-memory
\* services keep no such fields)
TemporaryCleared(id) ==
  variant \in MongoVariants
    => ~docs[id].isTemporaryPassword /\ docs[id].temporaryPasswordExpires = NoDate

\* C7 (as the spec states it): after changePassword(userId, newPassword)
\* returned true the temporary flag and expiry are cleared, login with the
\* new password succeeds without requiresPasswordChange, and login with the
\* old password fails with "Invalid credentials".
C7_AsStated ==
  last.op = "changePassword"
    => /\ TemporaryCleared(last.id)
       /\ LoginOutcome(last.email, last.pw).ok /\ ~LoginOutcome(last.email, last.pw).rpc
       /\ ~LoginOutcome(last.email, last.old).ok
       /\ LoginOutcome(last.email, last.old).error = InvalidCredentials

\* C7 (amended): after changePassword(userId, newPassword) returned true the
\* temporary flag and expiry are cleared; if the user is active, login with
\* the new password succeeds without requiresPasswordChange; if the new
\* password differs from the old one, login with the old password fails with
\* "Invalid credentials".
C7_ChangePassword ==
  last.op = "changePassword"
    => /\ TemporaryCleared(last.id)
       /\ Active(last.id)
            => LoginOutcome(last.email, last.pw).ok /\ ~LoginOutcome(last.email, last.pw).rpc
       /\ last.old # last.pw
            => /\ ~LoginOutcome(last.email, last.old).ok
               /\ LoginOutcome(last.email, last.old).error = InvalidCredentials

\* an active user has just replaced a password by a different one
C7_Witness ==
  /\ last.op = "changePassword" /\ Active(last.id) /\ last.old # last.pw
  /\ LoginOutcome(last.email, last.pw).ok

\* C8: after resetPasswordWithToken returned true the account is
\* active-permanent: temporary flag and expiry cleared, and login with the
\* new password succeeds.
C8_ResetMakesPermanent ==
  last.op = "resetPassword"
    => /\ TemporaryCleared(last.id)
       /\ LoginOutcome(last.email, last.pw).ok

\* the addresses POST /forgot-password lets through
ValidEmails == {e \in RouteEmails : ~ForgotPasswordRejects(e)}

\* the responses POST /forgot-password can send for an address in the
\* current state (one per code generateResetToken can draw)
ForgotPasswordAnswers(email) ==
  IF FindOne({d \in DOMAIN docs : docs[d].email = ToLowerCase(email) /\ docs[d].isActive}) = 0
  THEN {ForgotPasswordResponse(NoCode)}
  ELSE {ForgotPasswordResponse(token) : token \in Codes}

Indistinguishable ==
  /\ \A e1 \in ValidEmails, e2 \in ValidEmails :
       ForgotPasswordAnswers(e1) = ForgotPasswordAnswers(e2)
  /\ last.op = "forgotPassword"
       => [status |-> last.status, body |-> last.body] = ForgotPasswordResponse(NoCode)

\* C9 (as the spec states it): in every configuration, POST /forgot-password
\* answers two valid addresses with the same status and body whether or not
\* they belong to an active user.
C9_AsStated == variant \in MongoVariants => Indistinguishable

\* C9 (amended): unless NODE_ENV is "development", POST /forgot-password
\* answers two valid addresses with the same status and body whether or not
\* they belong to an active user; in development the answer for an active
\* user carries the code as developmentToken.
C9_ForgotPassword ==
  (variant \in MongoVariants /\ nodeEnv # "development") => Indistinguishable

\* outside development a code has just been generated for an active user
\* while another valid address belongs to nobody
C9_Witness ==
  /\ variant \in MongoVariants /\ nodeEnv # "development"
  /\ last.op = "forgotPassword" /\ last.res \in Codes
  /\ \E e \in ValidEmails : FindOne({d \in DOMAIN docs : docs[d].email = ToLowerCase(e)}) = 0

\* what POST /login answers to the failing logins of the current state
FailedLoginResponses ==
  IF variant \in MongoVariants
  THEN {LoginResponse(p, LoginResult(e, p)) :
          <<e, p>> \in {x \in MongoEmails \X PasswordInputs : ~LoginResult(x[1], x[2]).ok}}
  ELSE {[status |-> 401, body |-> MemLoginResult(x[1], x[2]).error] :
          x \in {y \in MemoryEmails \X PasswordInputs : ~MemLoginResult(y[1], y[2]).ok}}

\* C10: every failed login (unknown email, inactive user, wrong password,
\* expired temporary password) gets the same status and the same message.
C10_GenericLoginFailure == Cardinality(FailedLoginResponses) <= 1

\* the stored addresses, one entry per record
StoredEmails ==
  IF variant \in MongoVariants
  THEN [i \in DOMAIN docs |-> docs[i].email]
  ELSE [i \in DOMAIN users |-> users[i].email]

\* C11: in every reachable state no two user records, active or inactive,
\* have addresses that are equal ignoring case.
C11_EmailUnique ==
  \A i \in DOMAIN StoredEmails, j \in DOMAIN StoredEmails :
    i # j => ToLowerCase(StoredEmails[i]) # ToLowerCase(StoredEmails[j])

\* some record, active or not, has exactly this address
EmailTaken(email) == \E i \in DOMAIN StoredEmails : StoredEmails[i] = email

\* the address of the record the last createUser call added
CreatedEmail == IF variant \in MongoVariants THEN docs[last.id].email ELSE last.email

\* C12: createUser with an address that already belongs to a record fails
\* and changes nothing: no step that adds a record (or touches a password) is
\* a createUser call for an address some record already had.
C12_DuplicateRejected ==
  [][ \A e \in Addresses :
        (writes' # writes /\ last'.op = "createUser" /\ (CreatedEmail = e)')
          => ~EmailTaken(e)
    ]_vars

\* the code verifyResetToken or resetPasswordWithToken would take for the address
Accepted(code, email) ==
  VerifyResetTokenResult(code, email) \/ ResetPasswordResult(code, email)

\* the generations of `code` an acceptance for `email` can stem from: those
\* for the account that holds the address (MongoDB), for the address itself
\* (in-memory)
MintedFor(code, email) ==
  IF variant \in MongoVariants
  THEN {g \in minted : /\ g.code = code
                       /\ g.key \in DOMAIN docs
                       /\ docs[g.key].email = ToLowerCase(email)}
  ELSE {g \in minted : g.code = code /\ g.key = email}

\* the step is a successful resetPasswordWithToken(code, email, _)
ResetDone(code, email) ==
  /\ writes' # writes \/ inflight' # inflight
  /\ last'.op = "resetPassword" /\ last'.code = code
  /\ IF variant \in MongoVariants THEN last'.email = ToLowerCase(email) ELSE last'.email = email

\* C13: a reset code has a 15-minute lifetime: verifyResetToken and
\* resetPasswordWithToken take a code only while the clock is within 15
\* minutes of the generateResetToken call that returned it; once the clock
\* has passed generation + 15 minutes both return false, and no reset
\* changes a password with such a code.
C13_CodeLifetime ==
  /\ [](\A e \in Addresses, c \in Codes :
          Accepted(c, e) => \E g \in MintedFor(c, e) : now <= g.at + ResetCodeMinutes)
  /\ [][ \A e \in Addresses, c \in Codes :
           ResetDone(c, e) => \E g \in MintedFor(c, e) : now <= g.at + ResetCodeMinutes
       ]_vars

\* a generated code is still stored, its 15 minutes have passed, and both
\* calls turn it down
C13_Witness ==
  \E g \in minted, e \in Addresses :
    /\ g \in MintedFor(g.code, e)
    /\ now > g.at + ResetCodeMinutes
    /\ ~Accepted(g.code, e)
    /\ IF variant \in MongoVariants
       THEN docs[g.key].resetPasswordToken = g.code
       ELSE \E k \in DOMAIN resetTokens : resetTokens[k].token = g.code

\* the causes of failure the claim lists, read off the history and the
\* records: the code is not the one last generated for the account and not
\* yet used (wrong or already used), its 15 minutes have passed, or no
\* active record has the address
MustFail(code, email) ==
  \/ MintedFor(code, email) = {}
  \/ \E g \in MintedFor(code, email) : now > g.at + ResetCodeMinutes
  \/ ~\E i \in DOMAIN StoredEmails :
        /\ StoredEmails[i] = (IF variant \in MongoVariants THEN ToLowerCase(email) ELSE email)
        /\ IF variant \in MongoVariants THEN docs[i].isActive ELSE users[i].isActive

\* the step is the call resetPasswordWithToken(code, email, pw)
ResetCall(code, email, pw) ==
  \/ ResetPasswordWithToken(code, email, pw)
  \/ MemResetPasswordWithToken(code, email, pw)

\* the step is the call verifyResetToken(code, email)
VerifyCall(code, email) ==
  \/ VerifyResetToken(code, email)
  \/ MemVerifyResetToken(code, email)

\* a step that touches the records, the passwords or the stored codes is no
\* resetPasswordWithToken call that must fail
FailedResetFrame ==
  \/ UNCHANGED <<docs, users, passwords, resetTokens>>
  \/ \A e \in Addresses, c \in Codes, pw \in PasswordInputs :
       ResetCall(c, e, pw) => ~MustFail(c, e)

\* a verifyResetToken call leaves records and passwords alone and keeps
\* every accepted code accepted
VerifyFrame ==
  \/ UNCHANGED <<docs, users, passwords, resetTokens, now>>
  \/ (\E e \in Addresses, c \in Codes : VerifyCall(c, e))
       => /\ UNCHANGED <<docs, users, passwords>>
          /\ \A e2 \in Addresses, c2 \in Codes : Accepted(c2, e2) => Accepted(c2, e2)'

\* C14: a resetPasswordWithToken call that must fail (wrong, expired or
\* already-used code, unknown or inactive address) returns false and leaves
\* the records, the passwords and the stored codes as they were; a
\* verifyResetToken call leaves passwords alone and every code that was
\* accepted before it is accepted after it.
C14_FailureTouchesNothing ==
  /\ [](\A e \in Addresses, c \in Codes : MustFail(c, e) => ~ResetPasswordResult(c, e))
  /\ [][FailedResetFrame /\ VerifyFrame]_vars

\* a reset has just used a code: the pair must fail from now on, it is turned
\* down, and the password is the one that reset stored
C14_Witness ==
  \E pair \in consumed :
    /\ last.op = "resetPassword" /\ last.email = pair[1] /\ last.code = pair[2]
    /\ MustFail(pair[2], pair[1])
    /\ ~ResetPasswordResult(pair[2], pair[1])
    /\ StoredPasswordIs(pair[1], last.pw)

\* the positions of the inactive records
InactiveRecords ==
  IF variant \in MongoVariants
  THEN {i \in DOMAIN docs : ~docs[i].isActive}
  ELSE {i \in DOMAIN users : ~users[i].isActive}

\* the id of the record at position i
RecordId(i) == IF variant \in MongoVariants THEN i ELSE users[i].id

\* login with the record's address and password p authenticates record i
LoginReaches(i, p) ==
  IF variant \in MongoVariants
  THEN LoginResult(docs[i].email, p).ok /\ LoginResult(docs[i].email, p).id = i
  ELSE MemLoginResult(users[i].email, p).ok /\ MemLoginResult(users[i].email, p).index = i

\* generateResetToken / resetPasswordWithToken with the record's address
\* would serve record i
ResetReaches(i) ==
  IF variant \in MongoVariants
  THEN \/ FindOne({d \in DOMAIN docs : docs[d].email = docs[i].email /\ docs[d].isActive}) = i
       \/ \E c \in Codes : ResetLookup(c, docs[i].email) = i
  ELSE FirstIndex({u \in DOMAIN users : users[u].email = users[i].email /\ users[u].isActive}) = i

\* C15: once deactivateUser made a user inactive the record is kept, login
\* fails, the user's tokens are rejected, generateResetToken and
\* resetPasswordWithToken do not serve the user, and only an explicit
\* reactivation makes the user active again.
C15_InactiveTerminal ==
  /\ [](\A i \in InactiveRecords :
          /\ \A p \in PasswordInputs \cup {DefaultPassword} : ~LoginReaches(i, p)
          /\ \A t \in issued : t.userId = RecordId(i) => CurrentUser(t) = 0
          /\ ~ResetReaches(i))
  /\ [][ \A id \in UserIds \cup MemoryIds :
           Deactivated(id)
             => /\ Deactivated(id)' \/ Active(id)'
                /\ Active(id)' => (last'.op = "activateUser" /\ last'.id = id)
       ]_vars

RouteStep ==
  \/ gate' # gate
  \/ writes' # writes /\ last'.op \in {"deactivateUser", "updateUser", "changePassword"}

\* the request asks for the deactivation of its target
AsksDeactivation(g) ==
  \/ g.route \in {"DELETE /users/:id", "POST /:id/deactivate"}
  \/ g.route = "PUT /:id" /\ g.arg = "isActive: false"

\* C16: no request made by an admin deactivates that admin's own account:
\* every request asking for a deactivation whose target id is the requester's
\* id is refused (400), and the requester's record stays active.
C16_SelfDeactivationRejected ==
  [][ \A id \in UserIds \cup MemoryIds :
        (RouteStep /\ id # 0 /\ gate'.by = id)
          => /\ Active(id) => Active(id)'
             /\ (gate'.target = id /\ AsksDeactivation(gate')) => gate'.status = 400
    ]_vars

\* the account is locked: active, and its temporary password has expired
Locked(id) ==
  /\ variant \in MongoVariants
  /\ id \in DOMAIN docs
  /\ docs[id].isActive
  /\ IsTemporaryPasswordExpired(docs[id])

\* some password opens account id
CanLogin(id) ==
  \E p \in PasswordInputs \cup TemporaryPasswords :
    LoginResult(docs[id].email, p).ok /\ LoginResult(docs[id].email, p).id = id

\* C17: from the locked state no operation other than a completed password
\* reset returns the account to a state in which login can succeed.
C17_LockedOnlyReset ==
  [][ \A id \in UserIds :
        (Locked(id) /\ id \in DOMAIN docs' /\ CanLogin(id)')
          => (last'.op = "resetPassword" /\ last'.id = id)
    ]_vars

\* C19: a logout request whose token is missing, or is not known to the
\* server, completes with the success response and not with an error.
C19_LogoutWithoutToken ==
  (gate.route = "POST /logout" /\ (gate.header = NoHeader \/ gate.by = 0))
    => gate.status = 200

\* the request's header is absent or does not start with "Bearer "
Malformed(g) == g.header = NoHeader \/ g.header[1] # "Bearer" \/ g.header[2] # " "

\* nothing the server keeps has changed
NothingServed == UNCHANGED served

\* C20: on every protected route a request whose Authorization header is
\* absent or does not start with "Bearer " is answered 401 without the
\* AuthService being invoked; the handler runs only after the token has been
\* resolved to a user, and never for a request answered 401.
C20_BearerGate ==
  /\ [](gate.route # "none"
          => /\ Malformed(gate) => (gate.status = 401 /\ ~gate.called /\ ~gate.ran)
             /\ gate.ran => (gate.called /\ gate.by # 0)
             /\ gate.status = 401 => ~gate.ran)
  /\ [][ gate' # gate
           => /\ gate'.ran => (~Malformed(gate') /\ CurrentUser(gate'.header[3]) = gate'.by)
              /\ ~gate'.ran => NothingServed
       ]_vars

\* a request with a valid token under a lower-case scheme was answered 401
C20_Witness ==
  /\ gate.route # "none"
  /\ gate.header # NoHeader
  /\ gate.header[1] = "bearer"
  /\ CurrentUser(gate.header[3]) # 0
  /\ gate.status = 401

\* ------------------------------------------------------------- admin routes
\* a step in which an admin route answered a request
RoleStep ==
  \/ gate' # gate
  \/ writes' # writes /\ last'.op \in {"deactivateUser", "updateUserRole", "createUser"}

AdminRoutes == {"GET /users", "POST /users", "PUT /users/:id/role", "DELETE /users/:id"}

\* the role stored in record id
RecordRole(id) ==
  IF variant \in MongoVariants
  THEN docs[id].role
  ELSE users[FirstIndex({u \in DOMAIN users : users[u].id = id})].role

\* record id is an active administrator
ActiveAdmin(id) == Active(id) /\ RecordRole(id) = "admin"

\* C21: an admin-only operation executes only for a request whose token
\* resolves to an active user whose role is admin; every other authenticated
\* requester is answered 403 and nothing the server stores changes.
C21_AdminOnly ==
  [][ \A id \in UserIds \cup MemoryIds :
        (RoleStep /\ gate'.route \in AdminRoutes /\ id # 0 /\ gate'.by = id
           /\ ~ActiveAdmin(id))
          => (gate'.status = 403 /\ NothingServed)
    ]_vars

\* C26: a role change takes effect at once for existing sessions: whatever
\* token a request carries, old or new, requireAdmin decides with the role
\* the user's record holds now.
C26_RoleChangeImmediate ==
  \A t \in issued :
    CurrentUser(t) # 0
      => (RequireAdmin(<<"Bearer", " ", t>>) <=> RecordRole(CurrentUser(t)) = "admin")

\* every stored role is one of the enumeration
RolesClosed ==
  /\ \A d \in DOMAIN docs : docs[d].role \in Roles
  /\ \A u \in DOMAIN users : users[u].role \in Roles

\* C23: in every reachable state every user record's role is admin, user or
\* viewer; a createUser or updateUserRole request carrying another value is
\* rejected and changes nothing.
C23_RoleEnumeration ==
  /\ []RolesClosed
  /\ [][ (RoleStep /\ gate'.route \in {"POST /users", "PUT /users/:id/role"}
            /\ gate'.status # 401 /\ gate'.status # 403 /\ gate'.arg \notin Roles)
           => (gate'.status = 400 /\ NothingServed)
       ]_vars

\* --------------------------------------------------------------- dispatch
\* the token's lifetime is over
Expired(t) == IsJwt(t) /\ now >= t.iat + JwtLifetime

\* C22: a token issued by login stays valid (GET /me with it returns its
\* user) until it expires, is logged out, or its user is deactivated; no
\* other event, the switch of /api/auth between the MongoDB and the in-memory
\* routes included, invalidates it.
C22_TokenStaysValid ==
  [][ \A t \in issued :
        (CurrentUser(t) # 0 /\ CurrentUser(t)' = 0)
          => \/ Expired(t)'
             \/ t \in revoked'
             \/ Deactivated(t.userId)'
    ]_vars

\* -------------------------------------------------------------------- ids
\* no two records share an id (a document's _id is its position in `docs`)
IdsUnique ==
  \A i \in DOMAIN users, j \in DOMAIN users : i # j => users[i].id # users[j].id

\* no record's id changes, and no record is dropped
IdsStable ==
  /\ Len(users') >= Len(users) /\ Len(docs') >= Len(docs)
  /\ \A i \in DOMAIN users : users'[i].id = users[i].id

\* C24: a user id is assigned when the record is created, never changes,
\* and no two records share one, whatever createUser calls are made, several
\* within one clock tick included.
C24_IdUniqueStable == []IdsUnique /\ [][IdsStable]_vars

\* ---------------------------------------------------------------- profile
\* the password that authenticates the user of record i
RecordPassword(i) == PasswordOf(passwords, users[i].email)

\* this step is a successful reset with the code minted as g
ResetWith(g) ==
  /\ writes' # writes
  /\ last'.op = "resetPassword"
  /\ last'.code = g.code
  /\ IF variant \in MongoVariants THEN last'.id = g.key ELSE last'.email = g.key

\* C25: a successful reset with a code that was generated for user A never
\* changes the password of another user B, whatever profile changes were
\* made in between.
C25_CodeBoundToUser ==
  [][ \A g \in minted :
        ResetWith(g)
          => \A i \in DOMAIN users :
               users[i].id # g.owner => RecordPassword(i)' = RecordPassword(i)
    ]_vars

\* ----------------------------------------------------------- reactivation
\* C27: a token issued before its user was deactivated is never accepted
\* again: once the gate rejects it because its user is inactive, no step,
\* the user's reactivation included, makes the gate accept it.
C27_DeactivationPermanent ==
  [][ \A t \in issued :
        (Deactivated(t.userId) /\ CurrentUser(t) = 0) => CurrentUser(t)' = 0
    ]_vars

\* -------------------------------------------------------- stored credential
\* the passwords a user may hold
KnownPasswords ==
  PasswordInputs \cup TemporaryPasswords
    \cup {DefaultPassword, "marie123", "pierre123", "sophie123"}

\* login with the address of record i and password p succeeds
Authenticates(i, p) ==
  IF variant \in MongoVariants
  THEN LoginResult(docs[i].email, p).ok /\ LoginResult(docs[i].email, p).id = i
  ELSE MemLoginResult(users[i].email, p).ok

\* the calls that are not password changes
NotPasswordChanges ==
  {"login", "updateUserRole", "updateProfile", "forgotPassword", "verifyResetToken",
   "createUser"}

\* C28: a call that is not a password change never changes which password
\* authenticates an existing user: a password that opened the account before
\* login, updateUserRole, updateProfile, generateResetToken, verifyResetToken
\* or createUser still opens it afterwards, under the user's current address.
C28_CredentialKept ==
  [][ last'.op \in NotPasswordChanges
        => \A i \in DOMAIN docs \cup DOMAIN users, p \in KnownPasswords :
             Authenticates(i, p) => Authenticates(i, p)'
    ]_vars

\* ---------------------------------------------------------------- browser
AdminContent == {"AdminUsers", "UserManagement"}
ProtectedContent == AdminContent \cup {"Index"}

\* C29: the admin pages are rendered only when loading has finished and the
\* signed-in user is an admin; while loading nothing protected is rendered,
\* and a visitor who is not signed in is sent to /login, in every App.
C29_AdminPagesGuarded ==
  client.pc # "unmounted"
    => /\ View(client) \in AdminContent => (~client.isLoading /\ client.user = "admin")
       /\ client.isLoading => View(client) \notin ProtectedContent
       /\ (~client.isLoading /\ client.user = "null")
            => View(client) \in {"Login", "NotFound", "Navigate /login"}

\* C30: when logout() completes the context has user = null and isLoading =
\* false, whether the server call succeeded or failed; when initializeAuth
\* completes isLoading is false, and user is null if the verification failed.
C30_LogoutEndsSignedOut ==
  [][ /\ (client.pc = "logout" /\ client'.pc = "idle")
           => (client'.user = "null" /\ ~client'.isLoading)
      /\ (client.pc \in {"initializeAuth", "getCurrentUser", "clearing"} /\ client'.pc = "idle")
           => ~client'.isLoading
      /\ (client.pc = "clearing" /\ client'.pc = "idle") => client'.user = "null"
    ]_vars

====
